---------------------------- MODULE Spec2Model ----------------------------
(***************************************************************************)
(* Model of src/src/services/openai.ts: the image preprocessors, the       *)
(* response decoder, the four remote operations (testApiKey,               *)
(* extractPackshot, analyzeItemMetadata, validateProfilePhoto) and the     *)
(* canvas compositor generateComposition.                                  *)
(*                                                                         *)
(* Strings are TLA+ strings; TLC evaluates Len, SubSeq and \o on them, so  *)
(* substring and regular-expression tests are computed on the characters.  *)
(* Image scale factors are doubles in the source; here they are exact      *)
(* fractions num/den and Math.round is floor(x + 1/2).                     *)
(***************************************************************************)
EXTENDS Integers, Sequences, FiniteSets

(***************************************************************************)
(* Bounds of the model                                                     *)
(***************************************************************************)
MaxWords == 2        \* words per generated item description
MaxDim == 1040       \* largest image side drawn for the preprocessors
DimStep == 13        \* stride of the sampled image sides
MaxItems == 2        \* clothing items / descriptions per composition
MaxCalls == 2        \* invocations per behaviour

(***************************************************************************)
(* String helpers: String.prototype.toLowerCase and includes               *)
(***************************************************************************)
LowerOf(c) ==
  CASE c = "A" -> "a" [] c = "B" -> "b" [] c = "C" -> "c" [] c = "D" -> "d"
    [] c = "E" -> "e" [] c = "F" -> "f" [] c = "G" -> "g" [] c = "H" -> "h"
    [] c = "I" -> "i" [] c = "J" -> "j" [] c = "K" -> "k" [] c = "L" -> "l"
    [] c = "M" -> "m" [] c = "N" -> "n" [] c = "O" -> "o" [] c = "P" -> "p"
    [] c = "Q" -> "q" [] c = "R" -> "r" [] c = "S" -> "s" [] c = "T" -> "t"
    [] c = "U" -> "u" [] c = "V" -> "v" [] c = "W" -> "w" [] c = "X" -> "x"
    [] c = "Y" -> "y" [] c = "Z" -> "z" [] OTHER -> c

RECURSIVE toLowerCase(_)
toLowerCase(s) ==
  IF Len(s) = 0 THEN ""
  ELSE LowerOf(SubSeq(s, 1, 1)) \o toLowerCase(SubSeq(s, 2, Len(s)))

includes(s, pat) ==
  \E i \in 1..(Len(s) - Len(pat) + 1) : SubSeq(s, i, i + Len(pat) - 1) = pat

(***************************************************************************)
(* Garment classification, generateComposition lines 416-421               *)
(***************************************************************************)
\* wardrobeItemsDescriptions[index]?.toLowerCase() || ''  (index is 0-based)
DescriptionAt(ds, index) ==
  IF index + 1 \in DOMAIN ds THEN toLowerCase(ds[index + 1]) ELSE ""

\* A plausible rewrite of the three ifs as an else-if chain: first match wins.
ClothingTypeElseIf(description) ==
  IF includes(description, "jacket") \/ includes(description, "blazer") THEN "jacket"
  ELSE IF includes(description, "pants") \/ includes(description, "jeans") THEN "pants"
  ELSE IF includes(description, "dress") THEN "dress"
  ELSE "shirt"

\* let clothingType = 'shirt'; then three independent ifs, each overwriting.
ClothingType(description) ==
  LET t0 == "shirt"
      t1 == IF includes(description, "jacket") \/ includes(description, "blazer")
            THEN "jacket" ELSE t0
      t2 == IF includes(description, "pants") \/ includes(description, "jeans")
            THEN "pants" ELSE t1
      t3 == IF includes(description, "dress") THEN "dress" ELSE t2
  IN t3

(***************************************************************************)
(* Preprocessor arithmetic, lines 12-14 and 35-37                          *)
(***************************************************************************)
TargetSide == 512

\* a/b <= c/d for positive denominators
FracLeq(a, b, c, d) == a * d <= c * b

\* The scale without the cap at 1: small images are scaled up.
ScaleOfUncapped(width, height) ==
  LET byW == <<TargetSide, width>>
      byH == <<TargetSide, height>>
  IN IF FracLeq(byW[1], byW[2], byH[1], byH[2]) THEN byW ELSE byH

\* Math.min(512 / width, 512 / height, 1) as a fraction <<num, den>>
ScaleOf(width, height) ==
  LET byW == <<TargetSide, width>>
      byH == <<TargetSide, height>>
      m1  == IF FracLeq(byW[1], byW[2], byH[1], byH[2]) THEN byW ELSE byH
  IN IF FracLeq(m1[1], m1[2], 1, 1) THEN m1 ELSE <<1, 1>>

\* Math.round(x * scale): the nearest integer, halves upward
RoundScaled(x, scale) == (2 * x * scale[1] + scale[2]) \div (2 * scale[2])

\* Truncation instead of rounding.
ResizedDimsFloor(width, height) ==
  LET scale == ScaleOf(width, height)
  IN [w |-> (width * scale[1]) \div scale[2], h |-> (height * scale[1]) \div scale[2]]

\* The canvas size both preprocessors compute
ResizedDims(width, height) ==
  LET scale == ScaleOf(width, height)
  IN [w |-> RoundScaled(width, scale), h |-> RoundScaled(height, scale)]


(***************************************************************************)
(* Regular expressions of the error classifiers, lines 136-142, 303-307    *)
(***************************************************************************)
IsSpace(c) == c = " " \/ c = "\t" \/ c = "\n"

StartsAt(s, i, pat) ==
  i + Len(pat) - 1 <= Len(s) /\ SubSeq(s, i, i + Len(pat) - 1) = pat

\* position after the longest run of whitespace starting at i  (\s*)
RECURSIVE SkipSpaces(_, _)
SkipSpaces(s, i) ==
  IF i <= Len(s) /\ IsSpace(SubSeq(s, i, i)) THEN SkipSpaces(s, i + 1) ELSE i

\* /401|invalid\s*api\s*key/i
TestInvalidKey(message) ==
  LET m == toLowerCase(message)
  IN \/ includes(m, "401")
     \/ \E i \in 1..Len(m) :
          /\ StartsAt(m, i, "invalid")
          /\ LET j == SkipSpaces(m, i + 7)
             IN /\ StartsAt(m, j, "api")
                /\ StartsAt(m, SkipSpaces(m, j + 3), "key")

\* /quota|rate limit/i
TestQuota(message) ==
  LET m == toLowerCase(message)
  IN includes(m, "quota") \/ includes(m, "rate limit")

\* /content policy|safety/i
TestPolicy(message) ==
  LET m == toLowerCase(message)
  IN includes(m, "content policy") \/ includes(m, "safety")

\* /Failed to fetch|NetworkError|TypeError: fetch/i
TestNetwork(message) ==
  LET m == toLowerCase(message)
  IN \/ includes(m, "failed to fetch")
     \/ includes(m, "networkerror")
     \/ includes(m, "typeerror: fetch")

\* /Failed to fetch|CORS|NetworkError|TypeError: fetch/i
TestNetworkCors(message) == TestNetwork(message) \/ includes(toLowerCase(message), "cors")

(***************************************************************************)
(* Thrown values.  status 0 stands for an absent status field; message ""  *)
(* for an absent or empty message (error?.message || '').  origin is a     *)
(* history field: where the value was thrown.                              *)
(***************************************************************************)
NoStatus == 0

Thrown(status, message, origin) ==
  [status |-> status, message |-> message, origin |-> origin]

\* catch block of extractPackshot, lines 132-147
PackshotErrorCategory(error) ==
  IF error.status = 401 \/ TestInvalidKey(error.message) THEN "invalid-credential"
  ELSE IF error.status = 429 \/ TestQuota(error.message) THEN "rate-limit"
  ELSE IF error.status = 400 \/ TestPolicy(error.message) THEN "content-policy"
  ELSE IF TestNetwork(error.message) THEN "network"
  ELSE "generic"

PackshotErrorMessage(error) ==
  LET c == PackshotErrorCategory(error)
  IN CASE c = "invalid-credential" ->
            "Invalid OpenAI API key. Please check your API key in Settings."
       [] c = "rate-limit" ->
            "OpenAI rate limit or quota exceeded. Please try again later."
       [] c = "content-policy" ->
            "Content policy violation. Please try with a different image."
       [] c = "network" ->
            "Network error. Please check your internet connection."
       [] OTHER ->
            "Packshot extraction failed: "
              \o (IF error.message = "" THEN "Unknown error" ELSE error.message)

\* catch block of validateProfilePhoto, lines 300-311
ValidationErrorCategory(error) ==
  IF error.status = 401 \/ TestInvalidKey(error.message) THEN "invalid-credential"
  ELSE IF error.status = 429 \/ TestQuota(error.message) THEN "rate-limit"
  ELSE IF TestNetworkCors(error.message) THEN "network"
  ELSE "generic"

ValidationErrorMessage(error) ==
  LET c == ValidationErrorCategory(error)
  IN CASE c = "invalid-credential" ->
            "Invalid OpenAI API key. Please re-enter it in Settings."
       [] c = "rate-limit" ->
            "OpenAI rate limit or quota exceeded. Try again later."
       [] c = "network" ->
            "Network/CORS error contacting OpenAI. If on localhost, the browser may be blocking the request."
       [] OTHER ->
            IF error.message = "" THEN "Unexpected error during validation."
            ELSE error.message

(***************************************************************************)
(* What the remote service and the SDK can answer                          *)
(***************************************************************************)
Statuses == {NoStatus, 400, 401, 429, 500}

RemoteMessages ==
  { "",
    "401 Incorrect API key provided",
    "Invalid  API Key",
    "429 You exceeded your current quota",
    "Rate limit reached (req_40112)",
    "400 Rejected by the safety system",
    "Failed to fetch",
    "Connection error.",
    "500 The server had an error" }

RemoteErrors ==
  { Thrown(st, m, "remote") : st \in Statuses, m \in RemoteMessages }


(***************************************************************************)
(* Response decoder firstOutput, lines 47-53                               *)
(***************************************************************************)
\* res.output?.[0]?.content?.[0]: absent, or a block with a type marker and
\* a text ("" stands for a missing or empty text: both are falsy).
NoContent == [present |-> FALSE, type |-> "", text |-> ""]

Block(type, text) == [present |-> TRUE, type |-> type, text |-> text]

ValidationJson == "{\"is_valid\":true,\"reason\":\"\"}"

MetadataJson == "{\"name\":\"Coat\",\"category\":\"tops\",\"description\":\"A coat\"}"

\* Texts the remote model can put in a block; the last three are not JSON
\* (free text, a refusal sentence, an answer cut by max_output_tokens).
BlockTexts ==
  { "", ValidationJson, MetadataJson,
    "quota exceeded", "I cannot help with that", "{\"is_valid\":tr" }

ContentBlocks ==
  {NoContent} \cup { Block(t, x) : t \in {"output_text", "refusal"}, x \in BlockTexts }

\* JSON.parse on the texts above: the JSON documents among them
IsJson(text) == text \in {ValidationJson, MetadataJson}

\* The message of the SyntaxError JSON.parse throws is engine-defined; these
\* are the shapes V8 produces (end of input, or a quote of the source text).
SyntaxErrorMessages(text) ==
  { "Unexpected end of JSON input",
    "Unexpected token '" \o SubSeq(text, 1, 1) \o "', \"" \o text \o "\" is not valid JSON" }

\* The values firstOutput can throw on a content block (empty: it returns)
FirstOutputThrows(content) ==
  IF ~content.present \/ content.type # "output_text" \/ content.text = ""
  THEN { Thrown(NoStatus, "OpenAI: invalid response structure", "structure") }
  ELSE IF ~IsJson(content.text)
  THEN { Thrown(NoStatus, m, "parse") : m \in SyntaxErrorMessages(content.text) }
  ELSE {}

(***************************************************************************)
(* Usage accounting                                                        *)
(***************************************************************************)
ZeroUsage == [text |-> 0, image |-> 0, output |-> 0]

\* TokenUsageService.addUsage: the record is added to the running totals
AddUsage(totals, u) ==
  [text   |-> totals.text + u.input_tokens_details.text_tokens,
   image  |-> totals.image + u.input_tokens_details.image_tokens,
   output |-> totals.output + u.output_tokens]

\* response.usage: absent, or the counters the service reports
NoUsage == [has |-> FALSE, cached_tokens |-> 0, input_tokens |-> 0, output_tokens |-> 0]

ReportedUsages ==
  { NoUsage,
    [has |-> TRUE, cached_tokens |-> 0, input_tokens |-> 2, output_tokens |-> 3],
    [has |-> TRUE, cached_tokens |-> 1, input_tokens |-> 2, output_tokens |-> 3] }

\* lines 220-228 and 288-296: if (response.usage) tokenService.addUsage({...})
AccountResponseUsage(totals, u) ==
  IF u.has
  THEN AddUsage(totals,
         [input_tokens_details |-> [text_tokens |-> u.cached_tokens,
                                    image_tokens |-> u.input_tokens],
          output_tokens |-> u.output_tokens])
  ELSE totals

\* prompt.length of the packshot prompt, lines 87-101: the trimmed template
\* with the description substituted twice
PromptTemplateLength == 565

PromptLength(itemDescription) == PromptTemplateLength + 2 * Len(itemDescription)

\* Math.ceil(n / 4)
CeilDiv4(n) == (n + 3) \div 4

\* lines 115-121: the estimated usage of one image generation
AccountPackshotUsage(totals, itemDescription, quality) ==
  AddUsage(totals,
    [input_tokens_details |-> [text_tokens |-> CeilDiv4(PromptLength(itemDescription)),
                               image_tokens |-> 0],
     output_tokens |-> IF quality = "high" THEN 2000 ELSE 1000])


(***************************************************************************)
(* State                                                                   *)
(***************************************************************************)
VARIABLES
  pc,              \* where the running invocation stands ("idle": none runs)
  op,              \* the operation invoked
  calls,           \* invocations started so far
  apiKey,          \* credential argument
  image,           \* image argument [w, h, ok]; ok FALSE: it does not decode
  itemDescription, \* extractPackshot's description argument
  quality,         \* extractPackshot's quality argument
  profile,         \* generateComposition: whether the base photo decodes
  photo,           \* generateComposition: width and height of the base photo
  items,           \* generateComposition: per clothing image, whether it decodes
  descs,           \* generateComposition: wardrobeItemsDescriptions
  resized,         \* output of the preprocessor in this invocation
  sent,            \* requests handed to the SDK in this invocation
  rsp,             \* how the awaited SDK call settled
  events,          \* what this invocation did, in order
  usage,           \* totals of the TokenUsageService singleton
  usage0,          \* the totals when this invocation started (history)
  loadI,           \* generateComposition: loop index i of the decode loop
  clothingImages,  \* generateComposition: indices pushed by onload
  overlays,        \* generateComposition: overlays drawn
  layout,          \* generateComposition: where the photo and overlays were drawn
  result           \* how the invocation ended

vars == <<pc, op, calls, apiKey, image, itemDescription, quality, profile, photo,
          items, descs, resized, sent, rsp, events, usage, usage0, loadI,
          clothingImages, overlays, layout, result>>

args == <<apiKey, image, itemDescription, quality, profile, photo, items, descs>>

composition == <<loadI, clothingImages, overlays, layout>>

NoImage == [w |-> 0, h |-> 0, ok |-> FALSE]

NoPhoto == [w |-> 0, h |-> 0]

NoRect == [x |-> 0, y |-> 0, w |-> 0, h |-> 0]

\* Nothing drawn yet.  Lengths of a layout are counted in units of 1/den px.
NoLayout == [den |-> 1, base |-> NoRect, rects |-> <<>>]

NoError == Thrown(NoStatus, "", "")

NoListing == [isArray |-> FALSE, length |-> 0]

\* How an awaited SDK call settles: rejected with an error, or resolved with
\* a model listing, an image payload or a structured-output response.
NoReply ==
  [kind |-> "none", error |-> NoError, listing |-> NoListing, data |-> "",
   usage |-> NoUsage, content |-> NoContent]

Rejected(error) == [NoReply EXCEPT !.kind = "rejected", !.error = error]

ListingReply(l) == [NoReply EXCEPT !.kind = "listing", !.listing = l]

ImageReply(d) == [NoReply EXCEPT !.kind = "image", !.data = d]

Reply(u, c) == [NoReply EXCEPT !.kind = "response", !.usage = u, !.content = c]

NoResult == [kind |-> "none", category |-> "", message |-> "", origin |-> "", value |-> ""]

Value(v) == [kind |-> "value", category |-> "", message |-> "", origin |-> "", value |-> v]

Failure(category, message, origin) ==
  [kind |-> "error", category |-> category, message |-> message, origin |-> origin,
   value |-> ""]

Event(e, i) == [e |-> e, i |-> i]

(***************************************************************************)
(* Arguments the callers can pass                                          *)
(***************************************************************************)
ApiKeys == {"", "sk-test"}

ClientImages ==
  { [w |-> 400, h |-> 600, ok |-> TRUE],
    [w |-> 1024, h |-> 768, ok |-> TRUE],
    [w |-> 400, h |-> 600, ok |-> FALSE] }

ItemDescriptions == {"", "red scarf"}

Qualities == {"low", "medium", "high"}

DefaultArgs ==
  /\ apiKey = ""
  /\ image = NoImage
  /\ itemDescription = ""
  /\ quality = "low"
  /\ profile = FALSE
  /\ photo = NoPhoto
  /\ items = <<>>
  /\ descs = <<>>

Idle ==
  /\ pc = "idle"
  /\ op = "none"
  /\ resized = NoImage
  /\ sent = <<>>
  /\ rsp = NoReply
  /\ events = <<>>
  /\ loadI = 0
  /\ clothingImages = <<>>
  /\ overlays = <<>>
  /\ layout = NoLayout
  /\ result = NoResult

Init ==
  /\ Idle
  /\ DefaultArgs
  /\ calls = 0
  /\ usage = ZeroUsage
  /\ usage0 = ZeroUsage

\* An invocation starts: the arguments are bound by the caller's conjuncts.
Begin(name) ==
  /\ pc = "idle"
  /\ calls < MaxCalls
  /\ calls' = calls + 1
  /\ op' = name
  /\ usage0' = usage
  /\ rsp' = NoReply

\* The invocation is suspended at an await.
Await(label) ==
  /\ pc' = label
  /\ result' = NoResult

\* The invocation settles with r (returns a value or throws).
Settle(r) ==
  /\ pc' = "done"
  /\ result' = r

\* The caller has the result; the next invocation may start.
Return ==
  /\ pc = "done"
  /\ pc' = "idle"
  /\ op' = "none"
  /\ apiKey' = ""
  /\ image' = NoImage
  /\ itemDescription' = ""
  /\ quality' = "low"
  /\ profile' = FALSE
  /\ photo' = NoPhoto
  /\ items' = <<>>
  /\ descs' = <<>>
  /\ resized' = NoImage
  /\ sent' = <<>>
  /\ rsp' = NoReply
  /\ events' = <<>>
  /\ loadI' = 0
  /\ clothingImages' = <<>>
  /\ overlays' = <<>>
  /\ layout' = NoLayout
  /\ result' = NoResult
  /\ UNCHANGED <<calls, usage, usage0>>

(***************************************************************************)
(* testApiKey, lines 58-66                                                 *)
(***************************************************************************)
\* rsp.data of client.models.list(): not an array, or an array of n models
ListingData == { [isArray |-> a, length |-> n] : a \in BOOLEAN, n \in 0..2 }

\* A listing check that only looks at the length.
ListingAcceptedNoArrayCheck(data) == data.length > 0

\* Array.isArray(rsp.data) && rsp.data.length > 0
ListingAccepted(data) == data.isArray /\ data.length > 0

\* The client is built and models.list() is issued.
TestApiKeyCall ==
  /\ Begin("testApiKey")
  /\ Await("tk_await")
  /\ \E k \in ApiKeys : apiKey' = k
  /\ sent' = <<[op |-> "models.list", image |-> NoImage]>>
  /\ events' = <<Event("request", 0)>>
  /\ UNCHANGED <<image, itemDescription, quality, profile, photo, items, descs, resized,
                 usage, composition>>

\* models.list() rejected: the catch returns false.
TestApiKeyRejected ==
  /\ pc = "tk_await"
  /\ \E error \in RemoteErrors : rsp' = Rejected(error)
  /\ Settle(Value("false"))
  /\ events' = Append(events, Event("return", 0))
  /\ UNCHANGED <<op, calls, args, resized, sent, usage, usage0, composition>>

\* models.list() resolved.
TestApiKeyResolved ==
  /\ pc = "tk_await"
  /\ \E data \in ListingData :
       /\ rsp' = ListingReply(data)
       /\ Settle(Value(IF ListingAccepted(data) THEN "true" ELSE "false"))
  /\ events' = Append(events, Event("return", 0))
  /\ UNCHANGED <<op, calls, args, resized, sent, usage, usage0, composition>>


(***************************************************************************)
(* extractPackshot, lines 71-148                                           *)
(***************************************************************************)
\* response.data of client.images.generate(): "absent" (no data), "empty"
\* (data[0] missing), "nob64" (data[0].b64_json missing) or a payload
ImagePayloads == {"absent", "empty", "nob64", "iVBORw0KGgo="}

\* !response.data || !response.data[0] || !response.data[0].b64_json
HasNoImageData(data) == data \in {"absent", "empty", "nob64"}

\* The estimated usage added before images.generate() is awaited.
ExtractPackshotCallCounted ==
  /\ Begin("extractPackshot")
  /\ Await("ep_await")
  /\ \E k \in ApiKeys, f \in ClientImages, d \in ItemDescriptions, q \in Qualities :
       /\ apiKey' = k
       /\ image' = f
       /\ itemDescription' = d
       /\ quality' = q
       /\ usage' = AccountPackshotUsage(usage, d, q)
  /\ sent' = <<[op |-> "images.generate", image |-> NoImage]>>
  /\ events' = <<Event("request", 0)>>
  /\ UNCHANGED <<profile, photo, items, descs, resized, composition>>

\* The client is built, the prompt is composed from the description and
\* images.generate() is issued.  _imageFile is not read.
ExtractPackshotCall ==
  /\ Begin("extractPackshot")
  /\ Await("ep_await")
  /\ \E k \in ApiKeys, f \in ClientImages, d \in ItemDescriptions, q \in Qualities :
       /\ apiKey' = k
       /\ image' = f
       /\ itemDescription' = d
       /\ quality' = q
  /\ sent' = <<[op |-> "images.generate", image |-> NoImage]>>
  /\ events' = <<Event("request", 0)>>
  /\ UNCHANGED <<profile, photo, items, descs, resized, usage, composition>>

\* images.generate() rejected: the catch block classifies the error.
ExtractPackshotRejected ==
  /\ pc = "ep_await"
  /\ \E error \in RemoteErrors :
       /\ rsp' = Rejected(error)
       /\ Settle(Failure(PackshotErrorCategory(error), PackshotErrorMessage(error),
                         error.origin))
  /\ events' = Append(events, Event("throw", 0))
  /\ UNCHANGED <<op, calls, args, resized, sent, usage, usage0, composition>>

\* images.generate() resolved: usage is added, then the payload is checked;
\* a missing payload throws inside the try and is classified like the rest.
ExtractPackshotResolved ==
  /\ pc = "ep_await"
  /\ usage' = AccountPackshotUsage(usage, itemDescription, quality)
  /\ \E data \in ImagePayloads :
       /\ rsp' = ImageReply(data)
       /\ IF HasNoImageData(data)
          THEN LET error == Thrown(NoStatus, "No image data received from DALL-E", "nodata")
               IN /\ Settle(Failure(PackshotErrorCategory(error),
                                    PackshotErrorMessage(error), error.origin))
                  /\ events' = events \o <<Event("usage", 0), Event("throw", 0)>>
          ELSE /\ Settle(Value(data))
               /\ events' = events \o <<Event("usage", 0), Event("return", 0)>>
  /\ UNCHANGED <<op, calls, args, resized, sent, usage0, composition>>


(***************************************************************************)
(* analyzeItemMetadata, lines 153-231 (no try/catch: errors pass through)  *)
(***************************************************************************)
\* What resizeBase64To512 rejects with: the error Event of the image, which
\* has neither status nor message.
DecodeRejection == Thrown(NoStatus, "", "decode")

\* The input image as resizeBase64To512 re-encodes it.
Preprocessed(img) ==
  LET d == ResizedDims(img.w, img.h) IN [w |-> d.w, h |-> d.h, ok |-> TRUE]

\* A request that attaches the caller's image as it came.
RequestImageUnresized(img, resizedImg) == img

\* The image the request carries: data:image/png;base64,${resizedB64}
RequestImage(img, resizedImg) == resizedImg

\* The client is built and resizeBase64To512 starts loading the image.
AnalyzeCall ==
  /\ Begin("analyzeItemMetadata")
  /\ Await("am_resize")
  /\ \E k \in ApiKeys, f \in ClientImages : apiKey' = k /\ image' = f
  /\ events' = <<>>
  /\ UNCHANGED <<itemDescription, quality, profile, photo, items, descs, resized, sent,
                 usage, composition>>

\* onload: the image is resized and responses.create() is issued with it.
AnalyzeImageLoaded ==
  /\ pc = "am_resize"
  /\ image.ok
  /\ resized' = Preprocessed(image)
  /\ sent' = Append(sent, [op |-> "responses.create",
                           image |-> RequestImage(image, resized')])
  /\ events' = events \o <<Event("resize", 0), Event("request", 0)>>
  /\ Await("am_await")
  /\ UNCHANGED <<op, calls, args, rsp, usage, usage0, composition>>

\* onerror: the rejection leaves the function as it is.
AnalyzeImageFailed ==
  /\ pc = "am_resize"
  /\ ~image.ok
  /\ Settle(Failure("unclassified", DecodeRejection.message, DecodeRejection.origin))
  /\ events' = Append(events, Event("throw", 0))
  /\ UNCHANGED <<op, calls, args, resized, sent, rsp, usage, usage0, composition>>

\* responses.create() rejected: the SDK's error leaves the function as it is.
AnalyzeRejected ==
  /\ pc = "am_await"
  /\ \E error \in RemoteErrors :
       /\ rsp' = Rejected(error)
       /\ Settle(Failure("unclassified", error.message, error.origin))
  /\ events' = Append(events, Event("throw", 0))
  /\ UNCHANGED <<op, calls, args, resized, sent, usage, usage0, composition>>

\* responses.create() resolved: usage is added when reported, then
\* firstOutput decodes the response or throws.
AnalyzeResolved ==
  /\ pc = "am_await"
  /\ \E u \in ReportedUsages, c \in ContentBlocks :
       /\ rsp' = Reply(u, c)
       /\ usage' = AccountResponseUsage(usage, u)
       /\ LET did == IF u.has THEN <<Event("usage", 0)>> ELSE <<>>
          IN IF FirstOutputThrows(c) = {}
             THEN /\ Settle(Value(c.text))
                  /\ events' = events \o did \o <<Event("return", 0)>>
             ELSE /\ \E e \in FirstOutputThrows(c) :
                       Settle(Failure("unclassified", e.message, e.origin))
                  /\ events' = events \o did \o <<Event("throw", 0)>>
  /\ UNCHANGED <<op, calls, args, resized, sent, usage0, composition>>

(***************************************************************************)
(* validateProfilePhoto, lines 236-312 (everything inside one try)         *)
(***************************************************************************)
ValidationFailure(error) ==
  Failure(ValidationErrorCategory(error), ValidationErrorMessage(error), error.origin)

ValidateCall ==
  /\ Begin("validateProfilePhoto")
  /\ Await("vp_resize")
  /\ \E k \in ApiKeys, f \in ClientImages : apiKey' = k /\ image' = f
  /\ events' = <<>>
  /\ UNCHANGED <<itemDescription, quality, profile, photo, items, descs, resized, sent,
                 usage, composition>>

ValidateImageLoaded ==
  /\ pc = "vp_resize"
  /\ image.ok
  /\ resized' = Preprocessed(image)
  /\ sent' = Append(sent, [op |-> "responses.create",
                           image |-> RequestImage(image, resized')])
  /\ events' = events \o <<Event("resize", 0), Event("request", 0)>>
  /\ Await("vp_await")
  /\ UNCHANGED <<op, calls, args, rsp, usage, usage0, composition>>

\* onerror: the rejection is caught and classified.
ValidateImageFailed ==
  /\ pc = "vp_resize"
  /\ ~image.ok
  /\ Settle(ValidationFailure(DecodeRejection))
  /\ events' = Append(events, Event("throw", 0))
  /\ UNCHANGED <<op, calls, args, resized, sent, rsp, usage, usage0, composition>>

\* A catch that issues the request once more before giving up.
ValidateRejectedRetry ==
  /\ pc = "vp_await"
  /\ \E error \in RemoteErrors :
       /\ rsp' = Rejected(error)
       /\ IF Len(sent) < 2
          THEN /\ sent' = Append(sent, sent[1])
               /\ events' = Append(events, Event("request", 0))
               /\ Await("vp_await")
          ELSE /\ Settle(ValidationFailure(error))
               /\ events' = Append(events, Event("throw", 0))
               /\ UNCHANGED sent
  /\ UNCHANGED <<op, calls, args, resized, usage, usage0, composition>>

ValidateRejected ==
  /\ pc = "vp_await"
  /\ \E error \in RemoteErrors :
       /\ rsp' = Rejected(error)
       /\ Settle(ValidationFailure(error))
  /\ events' = Append(events, Event("throw", 0))
  /\ UNCHANGED <<op, calls, args, resized, sent, usage, usage0, composition>>

\* responses.create() resolved: usage, then firstOutput; what firstOutput
\* throws is caught and classified by the same catch block.
ValidateResolved ==
  /\ pc = "vp_await"
  /\ \E u \in ReportedUsages, c \in ContentBlocks :
       /\ rsp' = Reply(u, c)
       /\ usage' = AccountResponseUsage(usage, u)
       /\ LET did == IF u.has THEN <<Event("usage", 0)>> ELSE <<>>
          IN IF FirstOutputThrows(c) = {}
             THEN /\ Settle(Value(c.text))
                  /\ events' = events \o did \o <<Event("return", 0)>>
             ELSE /\ \E e \in FirstOutputThrows(c) : Settle(ValidationFailure(e))
                  /\ events' = events \o did \o <<Event("throw", 0)>>
  /\ UNCHANGED <<op, calls, args, resized, sent, usage0, composition>>


(***************************************************************************)
(* generateComposition, lines 317-492                                      *)
(***************************************************************************)
\* Decimal digits of a natural number, as template literals print it
RECURSIVE IntStr(_)
IntStr(n) ==
  LET digit(k) == CASE k = 0 -> "0" [] k = 1 -> "1" [] k = 2 -> "2" [] k = 3 -> "3"
                    [] k = 4 -> "4" [] k = 5 -> "5" [] k = 6 -> "6" [] k = 7 -> "7"
                    [] k = 8 -> "8" [] OTHER -> "9"
  IN IF n < 10 THEN digit(n) ELSE IntStr(n \div 10) \o digit(n % 10)

\* catch (error): throw new Error(`Outfit composition failed: ${...}`)
CompositionFailure(message, origin) ==
  Failure("composition",
          "Outfit composition failed: "
            \o (IF message = "" THEN "Unknown error" ELSE message),
          origin)

\* The message with the 0-based loop index.
ItemLoadMessageZeroBased(i) == "Failed to load clothing item " \o IntStr(i)

\* reject(new Error(`Failed to load clothing item ${i + 1}`)), i 0-based
ItemLoadMessage(i) == "Failed to load clothing item " \o IntStr(i + 1)

\* One pass of clothingImages.forEach: the garment type of the item at
\* `index` and, when several items were loaded, its label.
Overlay(ds, index, loaded) ==
  [index |-> index,
   type  |-> ClothingType(DescriptionAt(ds, index)),
   label |-> IF loaded > 1
             THEN (IF index + 1 \in DOMAIN ds /\ ds[index + 1] # ""
                   THEN ds[index + 1] ELSE "Item " \o IntStr(index + 1))
             ELSE ""]

\* canvas.width = 800; canvas.height = 1000
CanvasWidth == 800

CanvasHeight == 1000

\* Lengths are exact: a length of p px is the integer p * GeometryUnit * d,
\* where d is the denominator of the profile scale.  400 is the least unit in
\* which every ratio of the overlay computation (hundredths, * 1.1, / 2 twice)
\* stays integral.
GeometryUnit == 400

\* x * (hundredths / 100), x * 1.1 and x / 2 on such lengths
Hundredths(x, n) == (x \div 100) * n

Widened(x) == (x \div 10) * 11

Half(x) == x \div 2

\* The larger of the two ratios: the photo covers the 90% box instead of
\* fitting into it.
ProfileScaleCover(w, h) ==
  LET byW == <<(CanvasWidth * 9) \div 10, w>>
      byH == <<(CanvasHeight * 9) \div 10, h>>
  IN IF FracLeq(byW[1], byW[2], byH[1], byH[2]) THEN byH ELSE byW

\* Math.min((canvas.width * 0.9) / width, (canvas.height * 0.9) / height)
\* as a fraction <<num, den>>
ProfileScale(w, h) ==
  LET byW == <<(CanvasWidth * 9) \div 10, w>>
      byH == <<(CanvasHeight * 9) \div 10, h>>
  IN IF FracLeq(byW[1], byW[2], byH[1], byH[2]) THEN byW ELSE byH

\* Units per pixel under a scale
UnitsPerPx(scale) == GeometryUnit * scale[2]

\* scaledProfileWidth/Height and profileX/Y: the rectangle the photo is drawn in
BaseRect(ph) ==
  LET scale == ProfileScale(ph.w, ph.h)
      u  == UnitsPerPx(scale)
      sw == ph.w * scale[1] * GeometryUnit
      sh == ph.h * scale[1] * GeometryUnit
  IN [x |-> Half(CanvasWidth * u - sw), y |-> Half(CanvasHeight * u - sh),
      w |-> sw, h |-> sh]

\* The estimate with shoulder and waist ratios exchanged.
BodyDimensionsSwapped(base) ==
  [shoulderWidth |-> Hundredths(base.w, 35),
   torsoHeight   |-> Hundredths(base.h, 35),
   waistWidth    |-> Hundredths(base.w, 45),
   legWidth      |-> Hundredths(base.w, 25),
   shoulderY     |-> base.y + Hundredths(base.h, 15),
   chestY        |-> base.y + Hundredths(base.h, 25),
   waistY        |-> base.y + Hundredths(base.h, 45),
   hipY          |-> base.y + Hundredths(base.h, 55),
   centerX       |-> base.x + Half(base.w)]

\* bodyDimensions, lines 394-408
BodyDimensions(base) ==
  [shoulderWidth |-> Hundredths(base.w, 45),
   torsoHeight   |-> Hundredths(base.h, 35),
   waistWidth    |-> Hundredths(base.w, 35),
   legWidth      |-> Hundredths(base.w, 25),
   shoulderY     |-> base.y + Hundredths(base.h, 15),
   chestY        |-> base.y + Hundredths(base.h, 25),
   waistY        |-> base.y + Hundredths(base.h, 45),
   hipY          |-> base.y + Hundredths(base.h, 55),
   centerX       |-> base.x + Half(base.w)]

\* The overlay placed with its left edge, not its middle, on the center line.
OverlayRectUncentered(type, index, base, u) ==
  LET body == BodyDimensions(base)
      w == IF type = "pants" THEN body.legWidth * 2
           ELSE IF type = "jacket" THEN Widened(body.shoulderWidth)
           ELSE body.shoulderWidth
  IN [x |-> body.centerX,
      y |-> IF type = "pants" THEN body.hipY
            ELSE IF type = "dress" THEN body.shoulderY
            ELSE body.shoulderY + index * 10 * u,
      w |-> w,
      h |-> IF type = "pants" THEN Hundredths(base.h, 40)
            ELSE IF type = "dress" THEN Hundredths(base.h, 50)
            ELSE body.torsoHeight]

\* overlayX, overlayY, overlayWidth, overlayHeight of one item, lines 423-443
\* (index 0-based, u units per pixel)
OverlayRect(type, index, base, u) ==
  LET body == BodyDimensions(base)
  IN IF type = "pants"
     THEN LET overlayWidth == body.legWidth * 2
          IN [x |-> body.centerX - Half(overlayWidth), y |-> body.hipY,
              w |-> overlayWidth, h |-> Hundredths(base.h, 40)]
     ELSE IF type = "dress"
     THEN LET overlayWidth == body.shoulderWidth
          IN [x |-> body.centerX - Half(overlayWidth), y |-> body.shoulderY,
              w |-> overlayWidth, h |-> Hundredths(base.h, 50)]
     ELSE LET overlayWidth == IF type = "jacket" THEN Widened(body.shoulderWidth)
                              ELSE body.shoulderWidth
          IN [x |-> body.centerX - Half(overlayWidth),
              y |-> body.shoulderY + index * 10 * u,
              w |-> overlayWidth, h |-> body.torsoHeight]

\* Where drawImage puts the base photo and the n loaded clothing images
Layout(ph, ds, n) ==
  LET u == UnitsPerPx(ProfileScale(ph.w, ph.h))
      base == BaseRect(ph)
  IN [den   |-> u,
      base  |-> base,
      rects |-> [k \in 1..n |->
                   OverlayRect(ClothingType(DescriptionAt(ds, k - 1)), k - 1, base, u)]]

\* The synchronous tail after the decode loop: the base photo is drawn, each
\* loaded image is overlaid in order, the title is drawn, the canvas encoded.
DrawAndReturn(loaded) ==
  /\ overlays' = [k \in 1..Len(loaded) |-> Overlay(descs, k - 1, Len(loaded))]
  /\ layout' = Layout(photo, descs, Len(loaded))
  /\ events' = events \o <<Event("drawProfile", 0)>>
                 \o [k \in 1..Len(loaded) |-> Event("overlay", k)]
                 \o <<Event("return", 0)>>
  /\ Settle(Value("canvas.png"))

\* Lists of at most n elements of S
SeqsUpTo(S, n) == UNION { [1..k -> S] : k \in 0..n }

CompositionDescriptions == {"Leather JACKET", "jacket dress", "blue denim jeans"}

\* Base photos: a portrait and a wide, flat banner
CompositionPhotos == { [w |-> 400, h |-> 600], [w |-> 1000, h |-> 20] }

\* getContext('2d') gave a context: the canvas is sized and filled and the
\* base photo starts loading.
CompositionCall ==
  /\ Begin("generateComposition")
  /\ Await("gc_profile")
  /\ \E p \in BOOLEAN, ph \in CompositionPhotos, its \in SeqsUpTo(BOOLEAN, MaxItems),
        ds \in SeqsUpTo(CompositionDescriptions, MaxItems) :
       /\ profile' = p
       /\ photo' = ph
       /\ items' = its
       /\ descs' = ds
  /\ events' = <<Event("canvas", 0), Event("decodeProfile", 0)>>
  /\ UNCHANGED <<apiKey, image, itemDescription, quality, resized, sent, usage,
                 composition>>

\* getContext('2d') gave null.
CompositionNoContext ==
  /\ Begin("generateComposition")
  /\ \E p \in BOOLEAN, ph \in CompositionPhotos, its \in SeqsUpTo(BOOLEAN, MaxItems),
        ds \in SeqsUpTo(CompositionDescriptions, MaxItems) :
       /\ profile' = p
       /\ photo' = ph
       /\ items' = its
       /\ descs' = ds
  /\ events' = <<Event("canvas", 0), Event("throw", 0)>>
  /\ Settle(CompositionFailure("Could not get canvas 2D context", "context"))
  /\ UNCHANGED <<apiKey, image, itemDescription, quality, resized, sent, usage,
                 composition>>

\* profileImg.onerror
CompositionProfileFailed ==
  /\ pc = "gc_profile"
  /\ ~profile
  /\ Settle(CompositionFailure("Failed to load profile photo", "decode"))
  /\ events' = Append(events, Event("throw", 0))
  /\ UNCHANGED <<op, calls, args, resized, sent, rsp, usage, usage0, composition>>

\* profileImg.onload: the loop starts loading item 0, or, with no items,
\* the function runs to its end.
CompositionProfileLoaded ==
  /\ pc = "gc_profile"
  /\ profile
  /\ IF Len(items) > 0
     THEN /\ Await("gc_items")
          /\ events' = Append(events, Event("decode", 1))
          /\ UNCHANGED <<overlays, layout>>
     ELSE DrawAndReturn(clothingImages)
  /\ UNCHANGED <<op, calls, args, resized, sent, rsp, usage, usage0, loadI,
                 clothingImages>>

\* img.onload of item i: it is pushed; the loop starts loading item i + 1,
\* or, after the last item, the function runs to its end.
CompositionItemLoaded ==
  /\ pc = "gc_items"
  /\ items[loadI + 1]
  /\ clothingImages' = Append(clothingImages, loadI)
  /\ loadI' = loadI + 1
  /\ IF loadI + 1 < Len(items)
     THEN /\ Await("gc_items")
          /\ events' = Append(events, Event("decode", loadI + 2))
          /\ UNCHANGED <<overlays, layout>>
     ELSE DrawAndReturn(clothingImages')
  /\ UNCHANGED <<op, calls, args, resized, sent, rsp, usage, usage0>>

\* img.onerror of item i
CompositionItemFailed ==
  /\ pc = "gc_items"
  /\ ~items[loadI + 1]
  /\ Settle(CompositionFailure(ItemLoadMessage(loadI), "decode"))
  /\ events' = Append(events, Event("throw", 0))
  /\ UNCHANGED <<op, calls, args, resized, sent, rsp, usage, usage0, composition>>

(***************************************************************************)
(* The program: invocations one after another                              *)
(***************************************************************************)
Next ==
  \/ TestApiKeyCall \/ TestApiKeyRejected \/ TestApiKeyResolved
  \/ ExtractPackshotCall \/ ExtractPackshotRejected \/ ExtractPackshotResolved
  \/ AnalyzeCall \/ AnalyzeImageLoaded \/ AnalyzeImageFailed
  \/ AnalyzeRejected \/ AnalyzeResolved
  \/ ValidateCall \/ ValidateImageLoaded \/ ValidateImageFailed
  \/ ValidateRejected \/ ValidateResolved
  \/ CompositionCall \/ CompositionNoContext
  \/ CompositionProfileFailed \/ CompositionProfileLoaded
  \/ CompositionItemLoaded \/ CompositionItemFailed
  \/ Return

Spec == Init /\ [][Next]_vars


(***************************************************************************)
(* The preprocessors on their own: resizeFileTo512 (lines 9-24) and        *)
(* resizeBase64To512 (lines 27-44) applied to images of sampled sizes      *)
(***************************************************************************)
\* Sides around the 512 threshold, the smallest sides and a stride of others
Sides ==
  { d \in 1..MaxDim :
      \/ d <= 3
      \/ d % DimStep = 0
      \/ (d >= TargetSide - 2 /\ d <= TargetSide + 2)
      \/ d = 2 * TargetSide
      \/ d = MaxDim }

InitResize ==
  /\ Idle
  /\ apiKey = ""
  /\ itemDescription = ""
  /\ quality = "low"
  /\ profile = FALSE
  /\ photo = NoPhoto
  /\ items = <<>>
  /\ descs = <<>>
  /\ calls = 0
  /\ usage = ZeroUsage
  /\ usage0 = ZeroUsage
  /\ \E w \in Sides, h \in Sides : image = [w |-> w, h |-> h, ok |-> TRUE]

\* resizeFileTo512: bitmap -> scale -> canvas of w x h -> PNG file
ResizeFileTo512 ==
  /\ pc = "idle"
  /\ resized' = [w |-> ResizedDims(image.w, image.h).w,
                 h |-> ResizedDims(image.w, image.h).h, ok |-> TRUE]
  /\ events' = <<Event("resizeFileTo512", 0)>>
  /\ pc' = "done"
  /\ UNCHANGED <<op, calls, args, sent, rsp, usage, usage0, composition, result>>

\* resizeBase64To512: image -> scale -> canvas of w x h -> PNG base64
ResizeBase64To512 ==
  /\ pc = "idle"
  /\ resized' = Preprocessed(image)
  /\ events' = <<Event("resizeBase64To512", 0)>>
  /\ pc' = "done"
  /\ UNCHANGED <<op, calls, args, sent, rsp, usage, usage0, composition, result>>

NextResize == ResizeFileTo512 \/ ResizeBase64To512

SpecResize == InitResize /\ [][NextResize]_vars

(***************************************************************************)
(* The garment classification on its own: one forEach pass (lines 416-421) *)
(* over generated descriptions                                             *)
(***************************************************************************)
Vocabulary == {"jacket", "Blazer", "pants", "JEANS", "Dress", "t-shirt", "scarf"}

RECURSIVE JoinWords(_)
JoinWords(ws) ==
  IF Len(ws) = 0 THEN ""
  ELSE IF Len(ws) = 1 THEN ws[1]
  ELSE ws[1] \o " " \o JoinWords(Tail(ws))

Descriptions ==
  { JoinWords(ws) : ws \in SeqsUpTo(Vocabulary, MaxWords) }
    \cup {"blue denim jeans", "leather jacket", "summer dress", "cotton t-shirt"}

\* The item has a description, or none (the descriptions list is shorter).
InitClassify ==
  /\ Idle
  /\ apiKey = ""
  /\ image = NoImage
  /\ itemDescription = ""
  /\ quality = "low"
  /\ profile = TRUE
  /\ photo = [w |-> 400, h |-> 600]
  /\ items = <<TRUE>>
  /\ calls = 0
  /\ usage = ZeroUsage
  /\ usage0 = ZeroUsage
  /\ \/ descs = <<>>
     \/ \E d \in Descriptions : descs = <<d>>

ClassifyItem ==
  /\ pc = "idle"
  /\ overlays' = <<Overlay(descs, 0, 1)>>
  /\ pc' = "done"
  /\ UNCHANGED <<op, calls, args, resized, sent, rsp, events, usage, usage0, loadI,
                 clothingImages, layout, result>>

NextClassify == ClassifyItem

SpecClassify == InitClassify /\ [][NextClassify]_vars


(***************************************************************************)
(* Properties                                                              *)
(***************************************************************************)
EventNames == { events[k].e : k \in DOMAIN events }

Finished(name) == op = name /\ pc = "done"

\* C1: generateComposition called with item photos and descriptions of
\* different lengths fails with a mismatch error before any canvas is
\* allocated, any image is decoded or any request is made.
C1_MismatchFailsBeforeAnyWork ==
  (op = "generateComposition" /\ Len(items) # Len(descs)) =>
    /\ EventNames \cap {"canvas", "decodeProfile", "decode", "request"} = {}
    /\ pc = "done"
    /\ result.kind = "error"
    /\ includes(toLowerCase(result.message), "mismatch")

\* C2 as claimed: the first matching category in the order jacket/blazer,
\* pants/jeans, dress, shirt is the garment type of every description.
C2_FirstMatchWins ==
  pc = "done" =>
    LET d == IF Len(descs) > 0 THEN toLowerCase(descs[1]) ELSE ""
        jacket == includes(d, "jacket") \/ includes(d, "blazer")
        pants  == includes(d, "pants") \/ includes(d, "jeans")
    IN overlays[1].type =
         (IF jacket THEN "jacket"
          ELSE IF pants THEN "pants"
          ELSE IF includes(d, "dress") THEN "dress" ELSE "shirt")

\* C2 as amended: the last matching check wins, so dress takes precedence
\* over pants/jeans, which take precedence over jacket/blazer, and shirt is
\* the default; matching is case-insensitive substring matching, and the four
\* example descriptions are pants, jacket, dress and shirt.
C2_LastMatchWins ==
  pc = "done" =>
    LET d == IF Len(descs) > 0 THEN toLowerCase(descs[1]) ELSE ""
        jacket == includes(d, "jacket") \/ includes(d, "blazer")
        pants  == includes(d, "pants") \/ includes(d, "jeans")
        type   == overlays[1].type
    IN /\ includes(d, "dress") => type = "dress"
       /\ (pants /\ ~includes(d, "dress")) => type = "pants"
       /\ (jacket /\ ~pants /\ ~includes(d, "dress")) => type = "jacket"
       /\ (~jacket /\ ~pants /\ ~includes(d, "dress")) => type = "shirt"
       /\ descs = <<"blue denim jeans">> => type = "pants"
       /\ descs = <<"leather jacket">> => type = "jacket"
       /\ descs = <<"summer dress">> => type = "dress"
       /\ descs = <<"cotton t-shirt">> => type = "shirt"

\* A description with both 'jacket' and 'dress' has been classified as dress.
C2_Witness ==
  /\ pc = "done"
  /\ descs = <<"jacket Dress">>
  /\ overlays = <<[index |-> 0, type |-> "dress", label |-> ""]>>

\* C3: in extractPackshot and validateProfilePhoto an error with status 429
\* gives the rate-limit message, and on the packshot path an error with
\* status 400 gives the content-policy message, whatever its message text.
C3_StatusBeforePattern ==
  (pc = "done" /\ rsp.kind = "rejected") =>
    /\ (op \in {"extractPackshot", "validateProfilePhoto"} /\ rsp.error.status = 429)
         => result.category = "rate-limit"
    /\ (op = "extractPackshot" /\ rsp.error.status = 400)
         => result.category = "content-policy"

ImageOps == {"extractPackshot", "analyzeItemMetadata", "validateProfilePhoto"}

\* C4 as claimed: an invocation of extractPackshot, analyzeItemMetadata or
\* validateProfilePhoto that throws leaves the usage totals unchanged.
C4_FailureLeavesUsage ==
  (op \in ImageOps /\ pc = "done" /\ result.kind = "error") => usage = usage0

\* C4 as amended: an invocation that fails before a response is received
\* (the image does not decode, the remote call is rejected) leaves the totals
\* unchanged, and the totals change only once a response has been received,
\* for analyzeItemMetadata and validateProfilePhoto only when that response
\* reports usage; a failure after the response keeps what was added.
C4_FailureBeforeResponseLeavesUsage ==
  op \in ImageOps =>
    /\ (pc = "done" /\ result.kind = "error" /\ rsp.kind \in {"none", "rejected"})
         => usage = usage0
    /\ usage # usage0 =>
         /\ rsp.kind \in {"image", "response"}
         /\ op # "extractPackshot" => rsp.usage.has

\* A rejected remote call after an earlier invocation recorded usage.
C4_Witness ==
  /\ op \in ImageOps
  /\ pc = "done"
  /\ result.kind = "error"
  /\ rsp.kind = "rejected"
  /\ usage = usage0
  /\ usage # ZeroUsage

\* C5: testApiKey never raises: it completes with a boolean whatever the
\* credential and the backend do, and with true only when the listing's data
\* is an array of at least one element.
C5_TestApiKeyNeverRaises ==
  Finished("testApiKey") =>
    /\ result.kind = "value"
    /\ result.value \in {"true", "false"}
    /\ rsp.kind = "rejected" => result.value = "false"
    /\ result.value = "true" =>
         rsp.kind = "listing" /\ rsp.listing.isArray /\ rsp.listing.length >= 1

\* The listing request failed and testApiKey returned false.
C5_Witness ==
  /\ Finished("testApiKey")
  /\ rsp.kind = "rejected"
  /\ rsp.error.status = 401
  /\ result = Value("false")

\* |out - side * TargetSide / longest| <= 1/2: out is side scaled by
\* TargetSide/longest, rounded to the nearest integer
NearestScaled(out, side, longest) ==
  LET diff == out * longest - side * TargetSide
  IN 2 * (IF diff < 0 THEN -diff ELSE diff) <= longest

\* C6: for an input wider or higher than 512, both preprocessors produce an
\* output whose larger side is exactly 512 and whose other side is the
\* input's scaled by the same factor, rounded to the nearest integer.
C6_LargeImagesClampedTo512 ==
  (pc = "done" /\ (image.w > TargetSide \/ image.h > TargetSide)) =>
    IF image.w >= image.h
    THEN /\ resized.w = TargetSide
         /\ resized.h <= TargetSide
         /\ NearestScaled(resized.h, image.h, image.w)
    ELSE /\ resized.h = TargetSide
         /\ resized.w <= TargetSide
         /\ NearestScaled(resized.w, image.w, image.h)

\* A 1040 x 513 image has been resized to 512 x 253.
C6_Witness ==
  /\ pc = "done"
  /\ image.w = 1040 /\ image.h = 513
  /\ resized.w = 512 /\ resized.h = 253

\* C7: for an input whose sides are both at most 512, the output has exactly
\* the input's width and height.
C7_SmallImagesKeepSize ==
  (pc = "done" /\ image.w <= TargetSide /\ image.h <= TargetSide) =>
    (resized.w = image.w /\ resized.h = image.h)

\* A 3 x 511 image has been through resizeBase64To512 and is still 3 x 511.
C7_Witness ==
  /\ pc = "done"
  /\ events = <<Event("resizeBase64To512", 0)>>
  /\ image.w = 3 /\ image.h = 511
  /\ resized.w = 3 /\ resized.h = 511


\* The first content block is absent, is not text output, has no text, or
\* has text that is not JSON
Undecodable(content) ==
  \/ ~content.present
  \/ content.type # "output_text"
  \/ content.text = ""
  \/ content.text \notin {ValidationJson, MetadataJson}

\* C8: firstOutput fails on every response whose first content block is
\* absent, not text output, without text or not JSON, and inside
\* analyzeItemMetadata and validateProfilePhoto that failure reaches the caller
\* as a schema failure, never as an invalid-credential, rate-limit or network
\* failure.
C8_DecodeFailureIsSchemaFailure ==
  (op \in {"analyzeItemMetadata", "validateProfilePhoto"} /\ pc = "done"
     /\ rsp.kind = "response" /\ Undecodable(rsp.content)) =>
    /\ result.kind = "error"
    /\ result.origin \in {"structure", "parse"}
    /\ result.category \notin {"invalid-credential", "rate-limit", "network"}

\* rank of an event in the order resize, request, usage, result
Rank(e) ==
  CASE e = "resize" -> 1
    [] e = "request" -> 2
    [] e = "usage" -> 3
    [] OTHER -> 4

\* The events of the invocation are in the order resize, request, usage,
\* result, each at most once.
InOrder ==
  \A i, j \in DOMAIN events : i < j => Rank(events[i].e) < Rank(events[j].e)

\* C9 as claimed: in each of extractPackshot, analyzeItemMetadata and
\* validateProfilePhoto the supplied image goes through the preprocessor
\* before the request is sent, and the events of an invocation are in the
\* order resize, request, usage accounting, result.
C9_ResizeBeforeRequest ==
  op \in ImageOps =>
    /\ InOrder
    /\ "request" \in EventNames =>
         /\ "resize" \in EventNames
         /\ \A k \in DOMAIN sent : sent[k].image = Preprocessed(image)

\* C9 as amended: analyzeItemMetadata and validateProfilePhoto pass the image
\* through the preprocessor before the request is sent and send the resized
\* image; extractPackshot never calls the preprocessor and sends no image (its
\* request is built from the description alone); in all three, usage is
\* accounted only after the response is received, and the order of events is
\* (resize,) request, usage accounting, result.
C9_ResizeBeforeRequestExceptPackshot ==
  op \in ImageOps =>
    /\ InOrder
    /\ "usage" \in EventNames => rsp.kind \in {"image", "response"}
    /\ (op # "extractPackshot" /\ "request" \in EventNames) =>
         /\ events[1].e = "resize"
         /\ resized.w <= TargetSide /\ resized.h <= TargetSide
         /\ \A k \in DOMAIN sent :
              sent[k].image = resized /\ sent[k].image = Preprocessed(image)
    /\ op = "extractPackshot" =>
         /\ "resize" \notin EventNames
         /\ resized = NoImage
         /\ \A k \in DOMAIN sent : sent[k].image = NoImage

\* validateProfilePhoto resized a 1024 x 768 image to 512 x 384, sent it,
\* accounted the reported usage and returned.
C9_Witness ==
  /\ Finished("validateProfilePhoto")
  /\ image = [w |-> 1024, h |-> 768, ok |-> TRUE]
  /\ sent = <<[op |-> "responses.create", image |-> [w |-> 512, h |-> 384, ok |-> TRUE]]>>
  /\ events = <<Event("resize", 0), Event("request", 0), Event("usage", 0),
                Event("return", 0)>>

\* The decode events of the invocation, in order
DecodeEvents == SelectSeq(events, LAMBDA ev : ev.e = "decode")

\* 1-based index of the first clothing image that does not decode
FirstFailing ==
  CHOOSE k \in DOMAIN items : ~items[k] /\ \A j \in 1..(k - 1) : items[j]

\* C10: generateComposition decodes the clothing images one after another in
\* input order, item i+1 not before item i has loaded; decoding stops at the
\* first item that fails, no later item is decoded, nothing is drawn for any
\* clothing item, and the error names the 1-based index of that item.
C10_SequentialDecodeFailsAtFirst ==
  op = "generateComposition" =>
    /\ DecodeEvents = [k \in 1..Len(DecodeEvents) |-> Event("decode", k)]
    /\ Len(DecodeEvents) <= Len(clothingImages) + 1
    /\ clothingImages = [k \in 1..Len(clothingImages) |-> k - 1]
    /\ (pc = "done" /\ result.origin = "decode" /\ profile) =>
         /\ \E k \in DOMAIN items : ~items[k]
         /\ Len(DecodeEvents) = FirstFailing
         /\ overlays = <<>>
         /\ EventNames \cap {"overlay", "drawProfile"} = {}
         /\ result.kind = "error"
         /\ result.message = "Outfit composition failed: Failed to load clothing item "
                               \o IntStr(FirstFailing)
    /\ (pc = "done" /\ profile /\ "decodeProfile" \in EventNames
          /\ \E k \in DOMAIN items : ~items[k]) => result.origin = "decode"

\* The second of two clothing images failed to decode after the first loaded.
C10_Witness ==
  /\ Finished("generateComposition")
  /\ items = <<TRUE, FALSE>>
  /\ clothingImages = <<0>>
  /\ overlays = <<>>
  /\ result.message = "Outfit composition failed: Failed to load clothing item 2"


\* The request events of the invocation
RequestEvents == SelectSeq(events, LAMBDA ev : ev.e = "request")

\* C11: no operation retries: an invocation of testApiKey, extractPackshot,
\* analyzeItemMetadata or validateProfilePhoto issues at most one remote
\* request, also when that request fails, and generateComposition issues none.
C11_AtMostOneRequest ==
  /\ Len(sent) <= 1
  /\ Len(RequestEvents) = Len(sent)
  /\ op = "generateComposition" => sent = <<>>
  /\ (pc = "done" /\ rsp.kind = "rejected") =>
       (Len(sent) = 1 /\ op \in ImageOps \cup {"testApiKey"})
  /\ (pc = "done" /\ op \in ImageOps \cup {"testApiKey"}) =>
       (sent = <<>> <=> (result.origin = "decode" /\ rsp.kind = "none"))

\* validateProfilePhoto's one request was rejected with status 429 and the
\* invocation ended in an error without a second request.
C11_Witness ==
  /\ Finished("validateProfilePhoto")
  /\ rsp.kind = "rejected"
  /\ rsp.error.status = 429
  /\ result.kind = "error"
  /\ Len(sent) = 1
  /\ Len(RequestEvents) = 1


(***************************************************************************)
(* The drawing tail of generateComposition on its own (lines 380-486):     *)
(* every image has loaded; base photos of sampled sizes, items of every    *)
(* garment type                                                            *)
(***************************************************************************)
PhotoSides ==
  { d \in 1..MaxDim :
      \/ d <= 3
      \/ d % (4 * DimStep) = 0
      \/ d \in {20, 400, 600, 720, 900, 1000}
      \/ d = MaxDim }

LayoutDescriptions == CompositionDescriptions \cup {"cotton t-shirt"}

InitLayout ==
  /\ pc = "gc_items"
  /\ op = "generateComposition"
  /\ calls = 1
  /\ apiKey = ""
  /\ image = NoImage
  /\ itemDescription = ""
  /\ quality = "low"
  /\ profile = TRUE
  /\ \E w \in PhotoSides, h \in PhotoSides : photo = [w |-> w, h |-> h]
  /\ \E ds \in SeqsUpTo(LayoutDescriptions, MaxItems) :
       /\ descs = ds
       /\ items = [k \in 1..Len(ds) |-> TRUE]
  /\ resized = NoImage
  /\ sent = <<>>
  /\ rsp = NoReply
  /\ events = <<>>
  /\ usage = ZeroUsage
  /\ usage0 = ZeroUsage
  /\ loadI = Len(items)
  /\ clothingImages = [k \in 1..Len(items) |-> k - 1]
  /\ overlays = <<>>
  /\ layout = NoLayout
  /\ result = NoResult

\* The statements after the decode loop, run in one go.
DrawComposition ==
  /\ pc = "gc_items"
  /\ DrawAndReturn(clothingImages)
  /\ UNCHANGED <<op, calls, args, resized, sent, rsp, usage, usage0, loadI,
                 clothingImages>>

NextLayout == DrawComposition

SpecLayout == InitLayout /\ [][NextLayout]_vars

\* The composition has been drawn.
Drawn == pc = "done" /\ op = "generateComposition" /\ result.kind = "value"

C13_OverlaySizes ==
  Drawn =>
    \A k \in DOMAIN layout.rects :
      LET b == layout.base
          u == layout.den
          r == layout.rects[k]
          type == overlays[k].type
          shoulderWidth == 45 * (b.w \div 100)
          shoulderY == b.y + 15 * (b.h \div 100)
          hipY == b.y + 55 * (b.h \div 100)
      IN /\ b.w % 100 = 0 /\ b.h % 100 = 0
         /\ type = "jacket" =>
              /\ 10 * r.w = 11 * shoulderWidth
              /\ r.y = shoulderY + 10 * (k - 1) * u
              /\ photo = [w |-> 400, h |-> 600] =>
                   (b.w = 600 * u /\ shoulderWidth = 270 * u /\ r.w = 297 * u)
         /\ type = "shirt" =>
              /\ r.w = shoulderWidth
              /\ r.y = shoulderY + 10 * (k - 1) * u
         /\ type = "dress" =>
              /\ r.w = shoulderWidth
              /\ 2 * r.h = b.h
              /\ r.y = shoulderY
         /\ type = "pants" =>
              /\ r.w = 2 * (25 * (b.w \div 100))
              /\ 5 * r.h = 2 * b.h
              /\ r.y = hipY

\* On a 400 x 600 photo the second item, a jacket, has been drawn 297 px wide
\* and 10 px below the shoulder line at 185 px.
C13_Witness ==
  /\ Drawn
  /\ photo = [w |-> 400, h |-> 600]
  /\ descs = <<"blue denim jeans", "Leather JACKET">>
  /\ layout.rects[2].w = 297 * layout.den
  /\ layout.rects[2].y = 195 * layout.den

\* The rectangle is horizontally centered on the base photo's center line and
\* within its left and right edges.
CenteredWithin(r, b) ==
  /\ 2 * r.x + r.w = 2 * b.x + b.w
  /\ r.x >= b.x
  /\ r.x + r.w <= b.x + b.w

\* C14 as claimed: every overlay rectangle lies entirely inside the drawn base
\* photo's bounding box and is horizontally centered on its center line.
C14_OverlaysInsidePhoto ==
  Drawn =>
    \A k \in DOMAIN layout.rects :
      LET b == layout.base
          r == layout.rects[k]
      IN /\ CenteredWithin(r, b)
         /\ r.y >= b.y
         /\ r.y + r.h <= b.y + b.h

\* C14 as amended: every overlay rectangle is horizontally centered on the
\* base photo's center line, lies between its left and right edges and starts
\* below its top edge; a pants or dress overlay, and the overlay of the first
\* item (index 0), also ends above the photo's bottom edge, while a shirt or
\* jacket overlay at index i ends above it exactly when 10 * i px is at most
\* half the scaled photo height.
C14_OverlaysCenteredInsideUnlessShifted ==
  Drawn =>
    \A k \in DOMAIN layout.rects :
      LET b == layout.base
          u == layout.den
          r == layout.rects[k]
          type == overlays[k].type
          inside == r.y + r.h <= b.y + b.h
      IN /\ CenteredWithin(r, b)
         /\ r.y >= b.y
         /\ type \in {"pants", "dress"} => inside
         /\ k = 1 => inside
         /\ type \in {"shirt", "jacket"} =>
              (inside <=> 2 * (10 * (k - 1) * u) <= b.h)

\* On a 1000 x 20 photo, drawn 14.4 px high, the shirt overlay of the second
\* item ends below the photo's bottom edge.
C14_Witness ==
  /\ Drawn
  /\ photo = [w |-> 1000, h |-> 20]
  /\ Len(layout.rects) = 2
  /\ overlays[2].type = "shirt"
  /\ layout.rects[2].y + layout.rects[2].h > layout.base.y + layout.base.h
  /\ CenteredWithin(layout.rects[2], layout.base)

=============================================================================
